---- MODULE Spec2Model ----
(***************************************************************************)
(* Model of rustfbp/src/bin/schema/date_capnp.rs: the typed accessor layer *)
(* generated for the Cap'n Proto struct                                    *)
(*     struct Date { year :Int16; month :Int8; day :Int8; }                *)
(* over the struct layout runtime (capnp::private::layout) it delegates    *)
(* to.  The accessors, STRUCT_SIZE and the Pipeline wrapper are taken from *)
(* the generated file; the runtime primitives they call (get_data_field,   *)
(* set_data_field, get_struct, init_struct, set_struct, total_size, the    *)
(* typeless pipeline) are modelled from the written specification of the   *)
(* runtime.                                                                *)
(***************************************************************************)
EXTENDS Integers, Sequences, FiniteSets, TLC

VARIABLES
    seg,        \* builder-side message segment: sequence of words (word i is seg[i+1])
    builder,    \* the live Date Builder (a StructBuilder view into seg) or NoView
    written,    \* history: per field, whether and what this Builder last wrote to it
    last,       \* history: the last accessor call [op, via, field]
    ret,        \* value returned by the last getter
    touched,    \* history: byte addresses of seg the last accessor call used
    zeroed,     \* history: the Builder's region was all zero when the Builder was obtained
    rseg,       \* received (untrusted) message segment
    rres,       \* result of the last get_from_pointer / total_size on the received message
    rreads,     \* history: word addresses the runtime dereferenced in rseg
    walk,       \* the total_size traversal in progress on rseg
    dseg,       \* destination message of a deep copy
    dres,       \* result of the last operation on the destination message
    calls,      \* transport side: per call handle, "inflight" or "done"
    nresolve,   \* history: how many times the transport's resolve was invoked per handle
    cache,      \* Pipeline mechanism: the outcome cached per call handle, once it is there
    pipes,      \* the typeless pipelines created so far
    dates       \* the date::Pipeline values created so far, each with the history of
                \* what it was made from and whether its call was still in flight

vars == <<seg, builder, written, last, ret, touched, zeroed, rseg, rres, rreads, walk,
          dseg, dres, calls, nresolve, cache, pipes, dates>>

dateVars == <<seg, builder, written, last, ret, touched, zeroed>>
readVars == <<rseg, rres, rreads, walk>>
copyVars == <<dseg, dres>>
pipeVars == <<calls, nresolve, cache, pipes, dates>>

None == "none"
NoView == [kind |-> "none"]

(***************************************************************************)
(* Words, scalars and their little-endian two's complement encoding.       *)
(***************************************************************************)
BYTES_PER_WORD == 8

\* the configured bound on pointer depth of a reader
NESTING_LIMIT == 3

ZeroBytes == [i \in 0..(BYTES_PER_WORD - 1) |-> 0]

\* A word of a segment: raw data bytes, or a struct pointer (offset in words
\* from the word after the pointer, data words, pointer count).  The all-zero
\* word is the null pointer.
RawWord(bs) == [kind |-> "raw", bytes |-> bs, off |-> 0, data |-> 0, pointers |-> 0]
ZeroWord == RawWord(ZeroBytes)
StructPointer(o, d, p) ==
    [kind |-> "struct", bytes |-> ZeroBytes, off |-> o, data |-> d, pointers |-> p]

WordAt(s, w) == s[w + 1]
InSeg(s, w) == w >= 0 /\ w < Len(s)

SizeOf(T) == IF T = "i16" THEN 2 ELSE 1

Pow256(n) == IF n = 0 THEN 1 ELSE IF n = 1 THEN 256 ELSE 65536

\* value -> its SizeOf(T) bytes, least significant first
ToBytes(T, v) ==
    LET u == v % Pow256(SizeOf(T))
    IN  [i \in 0..(SizeOf(T) - 1) |-> (u \div Pow256(i)) % 256]

\* SizeOf(T) bytes, least significant first -> signed value
FromBytes(T, bs) ==
    LET u == IF SizeOf(T) = 2 THEN bs[0] + 256 * bs[1] ELSE bs[0]
        m == Pow256(SizeOf(T))
    IN  IF 2 * u >= m THEN u - m ELSE u

InBytes(s, a) == a >= 0 /\ a < Len(s) * BYTES_PER_WORD

ByteAt(s, a) == WordAt(s, a \div BYTES_PER_WORD).bytes[a % BYTES_PER_WORD]

\* a store outside the segment leaves the segment as it is (it lands in
\* memory the model does not hold); the address is still recorded by the caller
PutByte(s, a, b) ==
    LET w == a \div BYTES_PER_WORD
    IN  IF InBytes(s, a) THEN [s EXCEPT ![w + 1].bytes[a % BYTES_PER_WORD] = b] ELSE s

\* the byte addresses element `index` of type T occupies in a data section
\* that starts at word `dataOff`
FieldBytes(dataOff, T, index) ==
    LET a == dataOff * BYTES_PER_WORD + index * SizeOf(T)
    IN  a..(a + SizeOf(T) - 1)

(***************************************************************************)
(* The struct layout runtime: views and data fields.                       *)
(***************************************************************************)
Fields == {"year", "month", "day"}

\* the inputs the setters are called with: the extremes of each type, the
\* values of the specification's scenarios, and sign/byte-boundary patterns
I16Vals == {-32768, -1, 0, 1999, 2024, 32767}
I8Vals == {-128, 0, 3, 15, 127}
ValsOf(T) == IF T = "i16" THEN I16Vals ELSE I8Vals

\* layout::StructReader: data section [dataOff, dataOff + dataBits/64) and
\* pointer section of ptrCount words at ptrOff, clamped to what the pointer
\* advertised; nesting is the remaining pointer depth
StructReader(dataOff, dataBits, ptrOff, ptrCount, nesting) ==
    [kind |-> "reader", data_off |-> dataOff, data_size |-> dataBits,
     ptr_off |-> ptrOff, ptr_count |-> ptrCount, nesting |-> nesting]

\* layout::StructBuilder
StructBuilder(dataOff, dataBits, ptrOff, ptrCount) ==
    [kind |-> "builder", data_off |-> dataOff, data_size |-> dataBits,
     ptr_off |-> ptrOff, ptr_count |-> ptrCount]

\* the canonical empty reader a null pointer decodes to
EmptyReader(nesting) == StructReader(0, 0, 0, 0, nesting)

\* StructReader::get_data_field<T>(index): the default (zero) when the
\* element lies beyond the struct's actual data section, never an error
get_data_field(s, r, T, index) ==
    IF (index + 1) * SizeOf(T) * 8 <= r.data_size
    THEN LET a == r.data_off * BYTES_PER_WORD + index * SizeOf(T)
         IN  FromBytes(T, [i \in 0..(SizeOf(T) - 1) |-> ByteAt(s, a + i)])
    ELSE 0

\* the bytes get_data_field dereferences
get_data_field_bytes(r, T, index) ==
    IF (index + 1) * SizeOf(T) * 8 <= r.data_size
    THEN FieldBytes(r.data_off, T, index)
    ELSE {}

\* StructBuilder::get_data_field<T>(index): direct access, no bounds test
builder_get_data_field(s, b, T, index) ==
    LET a == b.data_off * BYTES_PER_WORD + index * SizeOf(T)
    IN  FromBytes(T, [i \in 0..(SizeOf(T) - 1) |->
                        IF InBytes(s, a + i) THEN ByteAt(s, a + i) ELSE 0])

\* StructBuilder::set_data_field<T>(index, value): direct in-place store
set_data_field(s, b, T, index, value) ==
    LET a == b.data_off * BYTES_PER_WORD + index * SizeOf(T)
        bs == ToBytes(T, value)
        RECURSIVE put(_, _)
        put(m, i) == IF i = SizeOf(T) THEN m ELSE put(PutByte(m, a + i, bs[i]), i + 1)
    IN  put(s, 0)

\* StructBuilder::as_reader
builder_as_reader(b) ==
    StructReader(b.data_off, b.data_size, b.ptr_off, b.ptr_count, NESTING_LIMIT)

(***************************************************************************)
(* The struct layout runtime: pointers on the builder side.                *)
(***************************************************************************)
\* the words of the message a Builder can grow to
MaxSegWords == 4

Allocate(s, n) == s \o [i \in 1..n |-> ZeroWord]

\* where the struct pointer stored at word p points
Target(s, p) == p + 1 + WordAt(s, p).off

\* a struct pointer whose target region lies inside the segment
PointerInBounds(s, p) ==
    LET w == WordAt(s, p)
    IN  Target(s, p) >= 0 /\ Target(s, p) + w.data + w.pointers <= Len(s)

\* a struct pointer whose target region contains the pointer itself
SelfReferential(s, p) ==
    LET w == WordAt(s, p)
    IN  p >= Target(s, p) /\ p < Target(s, p) + w.data + w.pointers

\* the old region of a pointer that is overwritten is cleared and becomes
\* unreachable garbage; the words stay allocated
zero_object(s, p) ==
    LET w == WordAt(s, p)
    IN  IF w.kind = "struct" /\ PointerInBounds(s, p)
        THEN [i \in 1..Len(s) |->
                IF i - 1 >= Target(s, p) /\ i - 1 < Target(s, p) + w.data + w.pointers
                THEN ZeroWord ELSE s[i]]
        ELSE s

\* PointerBuilder::init_struct(size): a fresh zeroed region of `size`, the
\* pointer at p rewritten to it, an exclusive StructBuilder over it
init_struct(s, p, size) ==
    LET s1 == zero_object(s, p)
        t  == Len(s1)
        s2 == Allocate(s1, size.data + size.pointers)
    IN  [err  |-> None,
         seg  |-> [s2 EXCEPT ![p + 1] = StructPointer(t - (p + 1), size.data, size.pointers)],
         view |-> StructBuilder(t, size.data * 64, t + size.data, size.pointers)]

Max(a, b) == IF a >= b THEN a ELSE b

\* PointerBuilder::get_struct(size, default): null -> init_struct; a pointer
\* out of the segment -> BoundsViolation; a struct smaller than `size` is
\* moved to a fresh region that covers `size`, so the Builder returned
\* always covers every offset the schema declares
builder_get_struct(s, p, size) ==
    LET w == WordAt(s, p)
    IN  IF w = ZeroWord THEN init_struct(s, p, size)
        ELSE IF w.kind # "struct"
        THEN [err |-> "MalformedPointer", seg |-> s, view |-> NoView]
        ELSE IF ~PointerInBounds(s, p) \/ SelfReferential(s, p)
        THEN [err |-> "BoundsViolation", seg |-> s, view |-> NoView]
        ELSE IF w.data >= size.data /\ w.pointers >= size.pointers
        THEN [err  |-> None, seg |-> s,
              view |-> StructBuilder(Target(s, p), w.data * 64,
                                     Target(s, p) + w.data, w.pointers)]
        ELSE LET nd == Max(w.data, size.data)
                 np == Max(w.pointers, size.pointers)
                 old == Target(s, p)
                 t  == Len(s)
                 s1 == Allocate(s, nd + np)
                 \* copy the data words; the pointers of the old region keep
                 \* their targets, so their offsets are rebased
                 s2 == [i \in 1..Len(s1) |->
                          IF i - 1 >= t /\ i - 1 < t + w.data
                          THEN s[old + (i - 1 - t) + 1]
                          ELSE IF i - 1 >= t + nd /\ i - 1 < t + nd + w.pointers
                          THEN LET q  == old + w.data + (i - 1 - t - nd)
                                   pw == s[q + 1]
                               IN  IF pw.kind = "struct"
                                   THEN [pw EXCEPT !.off = (q + 1 + pw.off) - i]
                                   ELSE pw
                          ELSE IF i - 1 >= old /\ i - 1 < old + w.data + w.pointers
                          THEN ZeroWord
                          ELSE s1[i]]
             IN  [err  |-> None,
                  seg  |-> [s2 EXCEPT ![p + 1] = StructPointer(t - (p + 1), nd, np)],
                  view |-> StructBuilder(t, nd * 64, t + nd, np)]

(***************************************************************************)
(* The struct layout runtime: pointers on the reader side.                 *)
(***************************************************************************)
Fail(e) == [err |-> e, view |-> NoView]
Ok(v) == [err |-> None, view |-> v]

\* PointerReader::get_struct(default = null) for the pointer stored at word
\* p, with `nesting` levels of pointer depth left.  A null pointer decodes
\* to the empty reader; the target region is validated against the segment
\* before a view over it exists; the view takes the size the pointer
\* advertises.
get_struct(s, p, nesting) ==
    LET w == WordAt(s, p)
    IN  IF w = ZeroWord THEN Ok(EmptyReader(nesting))
        ELSE IF nesting <= 0 THEN Fail("RecursionLimitExceeded")
        ELSE IF w.kind # "struct" THEN Fail("MalformedPointer")
        ELSE IF ~PointerInBounds(s, p) \/ SelfReferential(s, p)
        THEN Fail("BoundsViolation")
        ELSE Ok(StructReader(Target(s, p), w.data * 64, Target(s, p) + w.data,
                             w.pointers, nesting - 1))

NoSize == [err |-> None, words |-> 0, pointers |-> 0]
SizeFail(e) == [err |-> e, words |-> 0, pointers |-> 0]

RECURSIVE total_size(_, _)
RECURSIVE pointers_size(_, _, _)
\* StructReader::total_size: the data words and pointer slots of this struct
\* plus, recursively, of everything its pointers reference; the first error
\* met ends it
total_size(s, r) ==
    LET rest == pointers_size(s, r, 0)
    IN  IF rest.err # None THEN rest
        ELSE [err |-> None,
              words |-> r.data_size \div 64 + rest.words,
              pointers |-> r.ptr_count + rest.pointers]

\* the size reachable through pointer slots i.. of r
pointers_size(s, r, i) ==
    IF i >= r.ptr_count THEN NoSize
    ELSE LET g == get_struct(s, r.ptr_off + i, r.nesting)
         IN  IF g.err # None THEN SizeFail(g.err)
             ELSE LET c == total_size(s, g.view)
                  IN  IF c.err # None THEN c
                      ELSE LET t == pointers_size(s, r, i + 1)
                           IN  IF t.err # None THEN t
                               ELSE [err |-> None, words |-> c.words + t.words,
                                     pointers |-> c.pointers + t.pointers]

\* the words a destination message can grow to
MaxDestWords == 5

RECURSIVE copy_struct(_, _, _)
RECURSIVE copy_pointers(_, _, _, _, _)
\* a deep copy of the struct r of segment s appended to segment d: its data
\* words, then its pointer slots, each pointing at the copy of what the
\* source pointer references; `at` is where the copy starts
copy_struct(d, s, r) ==
    LET nd == r.data_size \div 64
        d1 == d \o [i \in 1..nd |-> s[r.data_off + i]]
                \o [i \in 1..r.ptr_count |-> ZeroWord]
    IN  copy_pointers(d1, s, r, Len(d), 0)

copy_pointers(d, s, r, at, i) ==
    IF i >= r.ptr_count THEN [err |-> None, seg |-> d, at |-> at]
    ELSE LET q == r.ptr_off + i
             g == get_struct(s, q, r.nesting)
         IN  IF g.err # None THEN [err |-> g.err, seg |-> d, at |-> at]
             ELSE IF WordAt(s, q) = ZeroWord THEN copy_pointers(d, s, r, at, i + 1)
             ELSE LET c == copy_struct(d, s, g.view)
                  IN  IF c.err # None THEN c
                      ELSE LET slot == at + r.data_size \div 64 + i
                               d2 == [c.seg EXCEPT ![slot + 1] =
                                        StructPointer(c.at - (slot + 1),
                                                      g.view.data_size \div 64,
                                                      g.view.ptr_count)]
                           IN  copy_pointers(d2, s, r, at, i + 1)

\* PointerBuilder::set_struct(value): the old region of the pointer at p is
\* discarded, the struct and everything it references is copied into the
\* message, and the pointer is set to the copy; CapacityExceeded when the
\* message cannot grow that far
set_struct(d, p, s, r) ==
    LET c == copy_struct(zero_object(d, p), s, r)
    IN  IF c.err # None THEN [err |-> c.err, seg |-> d]
        ELSE IF Len(c.seg) > MaxDestWords THEN [err |-> "CapacityExceeded", seg |-> d]
        ELSE [err |-> None,
              seg |-> [c.seg EXCEPT ![p + 1] =
                         StructPointer(c.at - (p + 1), r.data_size \div 64, r.ptr_count)]]

(***************************************************************************)
(* date_capnp.rs: the generated accessor layer.                            *)
(***************************************************************************)
\* a layout that does not cover the declared fields
STRUCT_SIZE_empty == [data |-> 0, pointers |-> 0]

\* _private::STRUCT_SIZE
STRUCT_SIZE == [data |-> 1, pointers |-> 0]

\* FromStructReader::new / FromStructBuilder::new wrap the view unchanged
Reader_new(reader) == reader
Builder_new(b) == b

\* Reader::get_year / get_month / get_day: the get_data_field::<T>(index) each makes
Reader_get_year == [T |-> "i16", index |-> 0]
Reader_get_month == [T |-> "i8", index |-> 2]
Reader_get_day == [T |-> "i8", index |-> 3]

\* Builder::get_year / get_month / get_day
Builder_get_year == [T |-> "i16", index |-> 0]
Builder_get_month == [T |-> "i8", index |-> 2]
Builder_get_day == [T |-> "i8", index |-> 3]

\* set_year storing at element 1 of the i16 view (bytes 2..3)
Builder_set_year_shifted == [T |-> "i16", index |-> 1]
\* set_month storing an i16 at bytes 2..3 instead of an i8 at byte 2
Builder_set_month_wide == [T |-> "i16", index |-> 1]

\* Builder::set_year / set_month / set_day: the set_data_field::<T>(index, value)
Builder_set_year == [T |-> "i16", index |-> 0]
Builder_set_month == [T |-> "i8", index |-> 2]
Builder_set_day == [T |-> "i8", index |-> 3]

ReaderGetter(f) ==
    IF f = "year" THEN Reader_get_year
    ELSE IF f = "month" THEN Reader_get_month ELSE Reader_get_day
BuilderGetter(f) ==
    IF f = "year" THEN Builder_get_year
    ELSE IF f = "month" THEN Builder_get_month ELSE Builder_get_day
BuilderSetter(f) ==
    IF f = "year" THEN Builder_set_year
    ELSE IF f = "month" THEN Builder_set_month ELSE Builder_set_day

\* the value a Reader / Builder getter of field f returns
Reader_get(s, r, f) == get_data_field(s, r, ReaderGetter(f).T, ReaderGetter(f).index)
Builder_get(s, b, f) ==
    builder_get_data_field(s, b, BuilderGetter(f).T, BuilderGetter(f).index)
\* the segment after a Builder setter of field f
Builder_set(s, b, f, value) ==
    set_data_field(s, b, BuilderSetter(f).T, BuilderSetter(f).index, value)

\* Builder::as_reader and Builder::borrow_as_reader
Builder_as_reader(b) == Reader_new(builder_as_reader(b))
Builder_borrow_as_reader(b) == Reader_new(builder_as_reader(b))

\* get_from_pointer that hands out an empty Reader when get_struct fails
Reader_get_from_pointer_lenient(s, p) ==
    LET r == get_struct(s, p, NESTING_LIMIT)
    IN  IF r.err # None THEN Ok(Reader_new(EmptyReader(NESTING_LIMIT)))
        ELSE Ok(Reader_new(r.view))

\* get_from_pointer that insists on a struct of at least STRUCT_SIZE
Reader_get_from_pointer_strict(s, p) ==
    LET r == get_struct(s, p, NESTING_LIMIT)
    IN  IF r.err # None THEN Fail(r.err)
        ELSE IF r.view.data_size < STRUCT_SIZE.data * 64 THEN Fail("BoundsViolation")
        ELSE Ok(Reader_new(r.view))

\* FromPointerReader::get_from_pointer: Ok(new(try!(reader.get_struct(null))))
Reader_get_from_pointer(s, p) ==
    LET r == get_struct(s, p, NESTING_LIMIT)
    IN  IF r.err # None THEN Fail(r.err) ELSE Ok(Reader_new(r.view))

\* Reader::total_size runs on self.reader
Reader_total_size(r) == r

\* Builder::total_size measuring the declared STRUCT_SIZE only
Builder_total_size_declared(b) ==
    StructReader(b.data_off, STRUCT_SIZE.data * 64, b.ptr_off, STRUCT_SIZE.pointers,
                 NESTING_LIMIT)

\* Builder::total_size runs on self.builder.as_reader()
Builder_total_size(b) == builder_as_reader(b)

\* set_pointer_builder that initialises the slot and drops the value
Reader_set_pointer_builder_init(d, p, s, value) ==
    [err |-> None, seg |-> init_struct(d, p, STRUCT_SIZE).seg]

\* SetPointerBuilder::set_pointer_builder: pointer.set_struct(&value.reader)
Reader_set_pointer_builder(d, p, s, value) == set_struct(d, p, s, value)

\* FromPointerBuilder::init_pointer: the size hint is ignored
Builder_init_pointer(s, p) ==
    LET r == init_struct(s, p, STRUCT_SIZE)
    IN  [r EXCEPT !.view = Builder_new(r.view)]

\* FromPointerBuilder::get_from_pointer: try!(get_struct(STRUCT_SIZE, null))
Builder_get_from_pointer(s, p) ==
    LET r == builder_get_struct(s, p, STRUCT_SIZE)
    IN  IF r.err # None THEN r ELSE [r EXCEPT !.view = Builder_new(r.view)]

(***************************************************************************)
(* Building a Date: the operations of a caller that holds the root pointer *)
(* (word 0) of a message under construction.                               *)
(***************************************************************************)
\* history of a field: never written, or the last value written
Unwritten == [has |-> FALSE, v |-> 0]
Written(value) == [has |-> TRUE, v |-> value]

NoCall == [op |-> "none", via |-> "none", field |-> "none", err |-> None]
Call(op, via, f, e) == [op |-> op, via |-> via, field |-> f, err |-> e]

\* a data word holding the given date, as the setters would leave it
DateWord(y, m, d) ==
    RawWord([i \in 0..(BYTES_PER_WORD - 1) |->
               IF i < 2 THEN ToBytes("i16", y)[i]
               ELSE IF i = 2 THEN ToBytes("i8", m)[0]
               ELSE IF i = 3 THEN ToBytes("i8", d)[0]
               ELSE 0])

\* the messages a Date is built in: an empty one (null root), one whose root
\* holds a struct of an older, empty layout, one that already holds a Date,
\* one whose root holds a struct of a newer, larger layout
DateInitSegs ==
    { <<ZeroWord>>,
      <<StructPointer(0, 0, 0)>>,
      <<StructPointer(0, 1, 0), DateWord(1999, 127, 15)>>,
      <<StructPointer(0, 2, 0), DateWord(-32768, 3, -128), DateWord(-1, 127, 127)>> }

IdleDate ==
    /\ seg = <<ZeroWord>> /\ builder = NoView
    /\ written = [f \in Fields |-> Unwritten]
    /\ last = NoCall /\ ret = 0 /\ touched = {} /\ zeroed = FALSE

NoResult == [kind |-> "none", err |-> None, view |-> NoView]
WalkIdle == [pc |-> "idle", root |-> NoView, stack |-> <<>>,
             words |-> 0, pointers |-> 0, err |-> None]

IdleRead == rseg = <<ZeroWord>> /\ rres = NoResult /\ rreads = {} /\ walk = WalkIdle
NoCopy == [op |-> "none", err |-> None, view |-> NoView, size |-> NoSize, base |-> 0]
IdleCopy == dseg = <<ZeroWord>> /\ dres = NoCopy
IdlePipe == calls = <<>> /\ nresolve = <<>> /\ cache = <<>> /\ pipes = {} /\ dates = {}

InitDate ==
    /\ seg \in DateInitSegs /\ builder = NoView
    /\ written = [f \in Fields |-> Unwritten]
    /\ last = NoCall /\ ret = 0 /\ touched = {} /\ zeroed = FALSE
    /\ IdleRead /\ IdleCopy /\ IdlePipe

\* the data words of a Builder's region are all zero
RegionZero(s, b) ==
    \A w \in b.data_off..(b.data_off + (b.data_size \div 64) - 1) :
        InSeg(s, w) => WordAt(s, w) = ZeroWord

\* Builder::init_pointer on the root pointer
InitPointer ==
    /\ Len(seg) + STRUCT_SIZE.data + STRUCT_SIZE.pointers <= MaxSegWords
    /\ LET r == Builder_init_pointer(seg, 0)
       IN  /\ seg' = r.seg
           /\ builder' = r.view
           /\ zeroed' = RegionZero(r.seg, r.view)
    /\ written' = [f \in Fields |-> Unwritten]
    /\ last' = Call("init_pointer", "builder", "none", None)
    /\ ret' = 0 /\ touched' = {}
    /\ UNCHANGED <<readVars, copyVars, pipeVars>>

\* Builder::get_from_pointer on the root pointer
GetFromPointer ==
    /\ LET r == Builder_get_from_pointer(seg, 0)
       IN  /\ Len(r.seg) <= MaxSegWords
           /\ seg' = r.seg
           /\ builder' = r.view
           /\ zeroed' = (r.err = None /\ RegionZero(r.seg, r.view))
           /\ last' = Call("get_from_pointer", "builder", "none", r.err)
    /\ written' = [f \in Fields |-> Unwritten]
    /\ ret' = 0 /\ touched' = {}
    /\ UNCHANGED <<readVars, copyVars, pipeVars>>

\* Builder::set_year / set_month / set_day (value)
Set(f, value) ==
    /\ builder.kind = "builder"
    /\ seg' = Builder_set(seg, builder, f, value)
    /\ written' = [written EXCEPT ![f] = Written(value)]
    /\ last' = Call("set", "builder", f, None)
    /\ ret' = 0
    /\ touched' = FieldBytes(builder.data_off, BuilderSetter(f).T, BuilderSetter(f).index)
    /\ UNCHANGED <<builder, zeroed, readVars, copyVars, pipeVars>>

\* Builder::get_year / get_month / get_day.  A load outside the segment
\* may yield any value of the type.
Get(f) ==
    /\ builder.kind = "builder"
    /\ LET bs == FieldBytes(builder.data_off, BuilderGetter(f).T, BuilderGetter(f).index)
       IN  /\ touched' = bs
           /\ IF \A a \in bs : InBytes(seg, a)
              THEN ret' = Builder_get(seg, builder, f)
              ELSE ret' \in ValsOf(BuilderGetter(f).T)
    /\ last' = Call("get", "builder", f, None)
    /\ UNCHANGED <<seg, builder, written, zeroed, readVars, copyVars, pipeVars>>

\* Builder::as_reader, then Reader::get_year / get_month / get_day
GetAsReader(f) ==
    /\ builder.kind = "builder"
    /\ LET r == Builder_as_reader(builder)
       IN  /\ ret' = Reader_get(seg, r, f)
           /\ touched' = get_data_field_bytes(r, ReaderGetter(f).T, ReaderGetter(f).index)
    /\ last' = Call("get", "as_reader", f, None)
    /\ UNCHANGED <<seg, builder, written, zeroed, readVars, copyVars, pipeVars>>

\* Builder::borrow_as_reader, then Reader::get_year / get_month / get_day
GetBorrowAsReader(f) ==
    /\ builder.kind = "builder"
    /\ LET r == Builder_borrow_as_reader(builder)
       IN  /\ ret' = Reader_get(seg, r, f)
           /\ touched' = get_data_field_bytes(r, ReaderGetter(f).T, ReaderGetter(f).index)
    /\ last' = Call("get", "borrow_as_reader", f, None)
    /\ UNCHANGED <<seg, builder, written, zeroed, readVars, copyVars, pipeVars>>

NextDate ==
    \/ InitPointer
    \/ GetFromPointer
    \/ \E f \in Fields : \E value \in ValsOf(BuilderSetter(f).T) : Set(f, value)
    \/ \E f \in Fields : Get(f)
    \/ \E f \in Fields : GetAsReader(f)
    \/ \E f \in Fields : GetBorrowAsReader(f)

SpecDate == InitDate /\ [][NextDate]_vars

(***************************************************************************)
(* Reading a Date from a message of unknown provenance: the operations of  *)
(* a caller that holds the root pointer (word 0) of a received segment.    *)
(***************************************************************************)
\* the words of a received segment
MaxRecvWords == 3

\* root pointers: null, a non-pointer word, and struct pointers of every
\* offset (before, inside and past the segment) and size up to a newer
\* layout of 2 data words and 1 pointer
RootPointers ==
    {ZeroWord, DateWord(2024, 3, 15)}
    \cup {StructPointer(o, d, q) : o \in (-2)..(MaxRecvWords - 1), d \in 0..2, q \in 0..1}

\* the other words: data, and pointers that reach back (a cycle), forward,
\* or out of the segment
RecvWords ==
    {ZeroWord, DateWord(2024, 3, 15), StructPointer(-2, 0, 1),
     StructPointer(0, 1, 0), StructPointer(MaxRecvWords, 1, 0)}

RecvSegs ==
    UNION {{<<w0>> \o t : w0 \in RootPointers, t \in [1..n -> RecvWords]} :
           n \in 0..(MaxRecvWords - 1)}

InitRead ==
    /\ rseg \in RecvSegs /\ rres = NoResult /\ rreads = {} /\ walk = WalkIdle
    /\ IdleDate /\ IdleCopy /\ IdlePipe

WordsOf(bytes) == {a \div BYTES_PER_WORD : a \in bytes}

\* Reader::get_from_pointer on the root pointer
ReaderGetFromPointer ==
    /\ walk.pc # "run"
    /\ LET r == Reader_get_from_pointer(rseg, 0)
       IN  /\ rres' = [kind |-> IF r.err = None THEN "reader" ELSE "none",
                       err |-> r.err, view |-> r.view]
           /\ last' = Call("get_from_pointer", "reader", "none", r.err)
    /\ rreads' = rreads \cup {0}
    /\ walk' = WalkIdle /\ ret' = 0 /\ touched' = {}
    /\ UNCHANGED <<rseg, seg, builder, written, zeroed, copyVars, pipeVars>>

\* the words PointerBuilder::get_struct loads: the pointer and, when the
\* struct is moved to a larger region, the old region
builder_get_struct_reads(s, p, r) ==
    LET w == WordAt(s, p)
    IN  {p} \cup (IF r.err = None /\ r.seg # s /\ w.kind = "struct"
                  THEN Target(s, p)..(Target(s, p) + w.data + w.pointers - 1)
                  ELSE {})

\* Builder::get_from_pointer on the root pointer
BuilderGetFromPointer ==
    /\ walk.pc # "run"
    /\ LET r == Builder_get_from_pointer(rseg, 0)
       IN  /\ rseg' = r.seg
           /\ rres' = [kind |-> IF r.err = None THEN "builder" ELSE "none",
                       err |-> r.err, view |-> r.view]
           /\ last' = Call("get_from_pointer", "builder", "none", r.err)
           /\ rreads' = rreads \cup builder_get_struct_reads(rseg, 0, r)
    /\ walk' = WalkIdle /\ ret' = 0 /\ touched' = {}
    /\ UNCHANGED <<seg, builder, written, zeroed, copyVars, pipeVars>>

\* Reader::get_year / get_month / get_day on the Reader obtained
ReaderGet(f) ==
    /\ walk.pc # "run"
    /\ rres.kind = "reader"
    /\ LET bs == get_data_field_bytes(rres.view, ReaderGetter(f).T, ReaderGetter(f).index)
       IN  /\ touched' = bs
           /\ rreads' = rreads \cup WordsOf(bs)
    /\ ret' = Reader_get(rseg, rres.view, f)
    /\ last' = Call("get", "reader", f, None)
    /\ UNCHANGED <<rseg, rres, walk, seg, builder, written, zeroed, copyVars, pipeVars>>

Frame(v) == [view |-> v, next |-> 0]
Top(st) == st[Len(st)]
Pop(st) == SubSeq(st, 1, Len(st) - 1)

\* Reader::total_size / Builder::total_size is called
TotalSizeStart ==
    /\ walk.pc # "run"
    /\ rres.kind \in {"reader", "builder"}
    /\ LET root == IF rres.kind = "reader" THEN Reader_total_size(rres.view)
                   ELSE Builder_total_size(rres.view)
       IN  walk' = [pc |-> "run", root |-> root, stack |-> <<Frame(root)>>,
                    words |-> root.data_size \div 64, pointers |-> root.ptr_count,
                    err |-> None]
    /\ last' = Call("total_size", rres.kind, "none", None)
    /\ ret' = 0 /\ touched' = {}
    /\ UNCHANGED <<rseg, rres, rreads, seg, builder, written, zeroed, copyVars, pipeVars>>

\* total_size follows the next pointer of the struct on top of the stack
TotalSizeDescend ==
    /\ walk.pc = "run" /\ walk.stack # <<>>
    /\ Top(walk.stack).next < Top(walk.stack).view.ptr_count
    /\ LET top == Top(walk.stack)
           q   == top.view.ptr_off + top.next
           g   == get_struct(rseg, q, top.view.nesting)
       IN  /\ g.err = None
           /\ rreads' = rreads \cup {q}
           /\ walk' = [walk EXCEPT
                  !.stack = Append([walk.stack EXCEPT ![Len(walk.stack)].next = top.next + 1],
                                   Frame(g.view)),
                  !.words = walk.words + g.view.data_size \div 64,
                  !.pointers = walk.pointers + g.view.ptr_count]
    /\ UNCHANGED <<rseg, rres, dateVars, copyVars, pipeVars>>

\* total_size meets a pointer it cannot follow and returns the error
TotalSizeFail ==
    /\ walk.pc = "run" /\ walk.stack # <<>>
    /\ Top(walk.stack).next < Top(walk.stack).view.ptr_count
    /\ LET top == Top(walk.stack)
           q   == top.view.ptr_off + top.next
           g   == get_struct(rseg, q, top.view.nesting)
       IN  /\ g.err # None
           /\ rreads' = rreads \cup {q}
           /\ walk' = [walk EXCEPT !.pc = "done", !.err = g.err,
                                   !.words = 0, !.pointers = 0]
    /\ UNCHANGED <<rseg, rres, dateVars, copyVars, pipeVars>>

\* total_size is through with the struct on top of the stack; with the
\* last struct it returns the sum
TotalSizeReturn ==
    /\ walk.pc = "run" /\ walk.stack # <<>>
    /\ Top(walk.stack).next >= Top(walk.stack).view.ptr_count
    /\ walk' = [walk EXCEPT !.stack = Pop(walk.stack),
                            !.pc = IF Len(walk.stack) = 1 THEN "done" ELSE "run"]
    /\ UNCHANGED <<rseg, rres, rreads, dateVars, copyVars, pipeVars>>

TotalSizeStep == TotalSizeDescend \/ TotalSizeFail \/ TotalSizeReturn

NextRead ==
    \/ ReaderGetFromPointer
    \/ BuilderGetFromPointer
    \/ \E f \in Fields : ReaderGet(f)
    \/ TotalSizeStart
    \/ TotalSizeDescend
    \/ TotalSizeFail
    \/ TotalSizeReturn

SpecRead == InitRead /\ [][NextRead]_vars

\* a call of total_size runs to its return
SpecReadFair == SpecRead /\ WF_vars(TotalSizeStep)

(***************************************************************************)
(* Copying a Date: a Reader over the source message rseg is copied into    *)
(* the pointer slot (word 0) of the destination message dseg and read      *)
(* back.                                                                   *)
(***************************************************************************)
\* source messages: every Date the setters can produce, the empty and the
\* null struct, a struct of a newer layout with a nested struct, one with a
\* null nested pointer, and a corrupt one whose pointers form a cycle
CopySrcSegs ==
    {<<StructPointer(0, 1, 0), DateWord(y, m, d)>> :
        y \in I16Vals, m \in I8Vals, d \in I8Vals}
    \cup { <<ZeroWord>>,
           <<StructPointer(0, 0, 0)>>,
           <<StructPointer(0, 2, 1), DateWord(2024, 3, 15), DateWord(-1, 127, 127),
             StructPointer(0, 1, 0), DateWord(1999, 127, 15)>>,
           <<StructPointer(0, 1, 1), DateWord(-32768, -128, 127), ZeroWord>>,
           <<StructPointer(0, 0, 1), StructPointer(-2, 0, 1)>> }

\* destination messages: an empty slot, or a slot that references a Date
CopyDstSegs ==
    { <<ZeroWord>>, <<StructPointer(0, 1, 0), DateWord(1999, 127, 15)>> }

InitCopy ==
    /\ rseg \in CopySrcSegs /\ rres = NoResult /\ rreads = {} /\ walk = WalkIdle
    /\ dseg \in CopyDstSegs /\ dres = NoCopy
    /\ IdleDate /\ IdlePipe

\* Reader::get_from_pointer on the root pointer of the source
SourceReader ==
    /\ rres.kind = "none"
    /\ LET r == Reader_get_from_pointer(rseg, 0)
       IN  rres' = [kind |-> IF r.err = None THEN "reader" ELSE "none",
                    err |-> r.err, view |-> r.view]
    /\ UNCHANGED <<rseg, rreads, walk, dateVars, copyVars, pipeVars>>

\* set_pointer_builder(slot, source Reader)
SetPointerBuilder ==
    /\ rres.kind = "reader"
    /\ LET r == Reader_set_pointer_builder(dseg, 0, rseg, rres.view)
       IN  /\ dseg' = r.seg
           /\ dres' = [op |-> "set", err |-> r.err, view |-> NoView, size |-> NoSize,
                       base |-> Len(dseg)]
    /\ UNCHANGED <<readVars, dateVars, pipeVars>>

\* Reader::get_from_pointer on the slot after a copy
ReadBack ==
    /\ dres.op = "set" /\ dres.err = None
    /\ LET r == Reader_get_from_pointer(dseg, 0)
       IN  dres' = [dres EXCEPT !.op = "read", !.err = r.err, !.view = r.view]
    /\ UNCHANGED <<dseg, readVars, dateVars, pipeVars>>

\* Reader::get_year / get_month / get_day on the copy
CopyGet(f) ==
    /\ dres.op \in {"read", "size"} /\ dres.err = None
    /\ ret' = Reader_get(dseg, dres.view, f)
    /\ last' = Call("get", "copy", f, None)
    /\ touched' = get_data_field_bytes(dres.view, ReaderGetter(f).T, ReaderGetter(f).index)
    /\ UNCHANGED <<seg, builder, written, zeroed, readVars, copyVars, pipeVars>>

\* Reader::total_size on the copy
CopyTotalSize ==
    /\ dres.op = "read" /\ dres.err = None
    /\ dres' = [dres EXCEPT !.op = "size",
                            !.size = total_size(dseg, Reader_total_size(dres.view))]
    /\ UNCHANGED <<dseg, readVars, dateVars, pipeVars>>

NextCopy ==
    \/ SourceReader
    \/ SetPointerBuilder
    \/ ReadBack
    \/ \E f \in Fields : CopyGet(f)
    \/ CopyTotalSize

SpecCopy == InitCopy /\ [][NextCopy]_vars

(***************************************************************************)
(* Pipelines: placeholders for fields of the result of a call in flight.   *)
(***************************************************************************)
MaxCalls == 2
MaxPipes == 3
MaxDates == 1
MaxPath == 2

\* any_pointer::Pipeline: identity (call handle, field path), Pending until
\* the call's outcome is there, then Resolved to a Reader of the result
\* message or Failed
PendingPipeline(h, path) ==
    [handle |-> h, path |-> path, state |-> "Pending", view |-> NoView, err |-> None]

NotCached == [set |-> FALSE, ok |-> FALSE, msg |-> <<>>]
Outcome(ok, msg) == [set |-> TRUE, ok |-> ok, msg |-> msg]

\* a result whose root struct has one pointer field, `date`, a Date of year y
ResultMsg(y) == <<StructPointer(0, 0, 1), StructPointer(0, 1, 0), DateWord(y, 3, 15)>>

\* what the transport's resolve yields: results with a date, a result whose
\* date is null, a transport error
Outcomes ==
    {Outcome(TRUE, ResultMsg(y)) : y \in {1999, -32768}}
    \cup { Outcome(TRUE, <<StructPointer(0, 0, 1), ZeroWord>>),
           Outcome(FALSE, <<>>) }

\* the pointer fields pipelines are derived for: `date`, field 0 of the root
PointerFields == {0}

RECURSIVE walk_path(_, _, _)
\* the Reader at field path `path` below the struct view r of msg;
\* PathNotFound when a field before the last is null or not a struct
walk_path(msg, r, path) ==
    IF path = <<>> THEN Ok(r)
    ELSE LET index == Head(path)
             isNull == index >= r.ptr_count \/ WordAt(msg, r.ptr_off + index) = ZeroWord
         IN  IF isNull
             THEN IF Len(path) > 1 THEN Fail("PathNotFound")
                  ELSE Ok(EmptyReader(r.nesting))
             ELSE IF WordAt(msg, r.ptr_off + index).kind # "struct"
             THEN Fail("PathNotFound")
             ELSE LET g == get_struct(msg, r.ptr_off + index, r.nesting)
                  IN  IF g.err # None THEN g ELSE walk_path(msg, g.view, Tail(path))

\* resolve that starts over on a pipeline that is Resolved
resolve_pipeline_again(p, c) ==
    IF p.state = "Resolved" THEN PendingPipeline(p.handle, p.path)
    ELSE IF p.state # "Pending" \/ ~c.set THEN p
    ELSE IF ~c.ok THEN [p EXCEPT !.state = "Failed", !.err = "TransportError"]
    ELSE LET root == get_struct(c.msg, 0, NESTING_LIMIT)
             r == IF root.err # None THEN root ELSE walk_path(c.msg, root.view, p.path)
         IN  IF r.err # None THEN [p EXCEPT !.state = "Failed", !.err = r.err]
             ELSE [p EXCEPT !.state = "Resolved", !.view = r.view]

\* resolve of one pipeline against the cached outcome c of its call: a
\* pipeline that is not Pending stays as it is; without an outcome it stays
\* Pending; else it takes the Reader at its path, or fails
resolve_pipeline(p, c) ==
    IF p.state # "Pending" \/ ~c.set THEN p
    ELSE IF ~c.ok THEN [p EXCEPT !.state = "Failed", !.err = "TransportError"]
    ELSE LET root == get_struct(c.msg, 0, NESTING_LIMIT)
             r == IF root.err # None THEN root ELSE walk_path(c.msg, root.view, p.path)
         IN  IF r.err # None THEN [p EXCEPT !.state = "Failed", !.err = r.err]
             ELSE [p EXCEPT !.state = "Resolved", !.view = r.view]

\* deriving a pipeline that also asks the transport to resolve the call
get_pointer_field_pipeline_asking(p, index) ==
    [pipe |-> PendingPipeline(p.handle, Append(p.path, index)), asks |-> 1]

\* get_pointer_field_pipeline(index): a new Pending pipeline for the field,
\* whatever the state of the call; the transport is not asked again
get_pointer_field_pipeline(p, index) ==
    [pipe |-> PendingPipeline(p.handle, Append(p.path, index)), asks |-> 0]

\* a date::Pipeline around the pipeline of the call's root
Pipeline_new_root(typeless) == [_typeless |-> [typeless EXCEPT !.path = <<>>]]

\* FromTypelessPipeline::new: Pipeline { _typeless : typeless }
Pipeline_new(typeless) == [_typeless |-> typeless]

\* the identity of a typeless pipeline
Identity(p) == [handle |-> p.handle, path |-> p.path]

\* what a date::Pipeline stands for now
DateState(d) ==
    resolve_pipeline(PendingPipeline(d._typeless.handle, d._typeless.path),
                     cache[d._typeless.handle])

InitPipe ==
    /\ calls = <<>> /\ nresolve = <<>> /\ cache = <<>> /\ pipes = {} /\ dates = {}
    /\ IdleDate /\ IdleRead /\ IdleCopy

\* a call is issued: send(message) yields its handle, the transport's
\* resolve(handle) is asked for the outcome, the root pipeline is returned
Send ==
    /\ Len(calls) < MaxCalls /\ Cardinality(pipes) < MaxPipes
    /\ calls' = Append(calls, "inflight")
    /\ nresolve' = Append(nresolve, 1)
    /\ cache' = Append(cache, NotCached)
    /\ pipes' = pipes \cup {PendingPipeline(Len(calls) + 1, <<>>)}
    /\ last' = NoCall
    /\ UNCHANGED <<dates, seg, builder, written, ret, touched, zeroed, readVars, copyVars>>

\* a pipeline for pointer field `index` of pipeline p
Derive(p, index) ==
    /\ Cardinality(pipes) < MaxPipes /\ Len(p.path) < MaxPath
    /\ LET g == get_pointer_field_pipeline(p, index)
       IN  /\ pipes' = pipes \cup {g.pipe}
           /\ nresolve' = [nresolve EXCEPT ![p.handle] = @ + g.asks]
    /\ last' = NoCall
    /\ UNCHANGED <<calls, cache, dates, seg, builder, written, ret, touched, zeroed,
                   readVars, copyVars>>

\* date::Pipeline::new on typeless pipeline p
PipelineNew(p) ==
    /\ Cardinality(dates) < MaxDates
    /\ dates' = dates \cup {[pipe |-> Pipeline_new(Identity(p)), of |-> Identity(p),
                              early |-> ~cache[p.handle].set]}
    /\ last' = NoCall
    /\ UNCHANGED <<calls, nresolve, cache, pipes, seg, builder, written, ret, touched,
                   zeroed, readVars, copyVars>>

\* the transport's resolve(h) yields outcome c: it is cached and every
\* pipeline derived from h is resolved against it
TransportComplete(h, c) ==
    /\ calls[h] = "inflight"
    /\ calls' = [calls EXCEPT ![h] = "done"]
    /\ cache' = [cache EXCEPT ![h] = c]
    /\ pipes' = {IF q.handle = h THEN resolve_pipeline(q, c) ELSE q : q \in pipes}
    /\ last' = NoCall
    /\ UNCHANGED <<nresolve, dates, seg, builder, written, ret, touched, zeroed,
                   readVars, copyVars>>

\* resolve is called on pipeline p
Resolve(p) ==
    /\ pipes' = (pipes \ {p}) \cup {resolve_pipeline(p, cache[p.handle])}
    /\ last' = Call("resolve", "pipeline", p.state, None)
    /\ UNCHANGED <<calls, nresolve, cache, dates, seg, builder, written, ret, touched,
                   zeroed, readVars, copyVars>>

\* get_year on the Reader date::Pipeline d resolved to
PipelineGetYear(d) ==
    /\ DateState(d.pipe).state = "Resolved"
    /\ ret' = Reader_get(cache[d.pipe._typeless.handle].msg, DateState(d.pipe).view, "year")
    /\ last' = Call("get", "pipeline", "year", None)
    /\ UNCHANGED <<pipeVars, seg, builder, written, touched, zeroed, readVars, copyVars>>

NextPipe ==
    \/ Send
    \/ \E p \in pipes : \E index \in PointerFields : Derive(p, index)
    \/ \E p \in pipes : PipelineNew(p)
    \/ \E h \in 1..Len(calls) : \E c \in Outcomes : TransportComplete(h, c)
    \/ \E p \in pipes : Resolve(p)
    \/ \E d \in dates : PipelineGetYear(d)

SpecPipe == InitPipe /\ [][NextPipe]_vars

(***************************************************************************)
(* Properties of building a Date (SpecDate).                               *)
(***************************************************************************)
\* C1 (round trip): a getter of field f called after set_f(v), with no
\* write to f in between, returns exactly v, whether it is the Builder's
\* getter or that of a Reader obtained by as_reader or borrow_as_reader.
C1_RoundTrip ==
    (last.op = "get" /\ written[last.field].has) => ret = written[last.field].v

C1_Witness ==
    /\ last.op = "get" /\ last.via = "as_reader" /\ last.field = "year"
    /\ written["year"] = Written(-32768) /\ ret = -32768
    /\ written["month"] = Written(127)

\* C2 (Date scenario, frame): on a Builder over a zero-initialised region
\* every field reads the last value written to it and 0 if it was never
\* written, so no setter changes another field.
C2_DateScenario ==
    (builder.kind = "builder" /\ zeroed) =>
        \A f \in Fields :
            Builder_get(seg, builder, f) = IF written[f].has THEN written[f].v ELSE 0

C2_Witness ==
    /\ builder.kind = "builder" /\ zeroed
    /\ written = [year |-> Written(2024), month |-> Written(3), day |-> Written(15)]
    /\ Builder_get(seg, builder, "year") = 2024
    /\ Builder_get(seg, builder, "month") = 3
    /\ Builder_get(seg, builder, "day") = 15

\* the bytes of the data section STRUCT_SIZE declares, for a struct at b
DeclaredData(b) ==
    (b.data_off * BYTES_PER_WORD)..((b.data_off + STRUCT_SIZE.data) * BYTES_PER_WORD - 1)

\* C10 (layout consistency): for a Builder obtained by init_pointer or
\* get_from_pointer, the byte ranges of the three fields are pairwise
\* disjoint, the same for the Reader getter, the Builder getter and the
\* Builder setter of a field, and inside the data section STRUCT_SIZE
\* declares, which the Builder's region covers inside the segment; every
\* accessor call touched only such bytes.
C10_Layout ==
    builder.kind = "builder" =>
        LET rd(f) == get_data_field_bytes(Builder_as_reader(builder),
                                          ReaderGetter(f).T, ReaderGetter(f).index)
            bg(f) == FieldBytes(builder.data_off, BuilderGetter(f).T, BuilderGetter(f).index)
            bs(f) == FieldBytes(builder.data_off, BuilderSetter(f).T, BuilderSetter(f).index)
        IN  /\ STRUCT_SIZE = [data |-> 1, pointers |-> 0]
            /\ builder.data_size >= STRUCT_SIZE.data * 64
            /\ builder.ptr_count >= STRUCT_SIZE.pointers
            /\ \A a \in DeclaredData(builder) : InBytes(seg, a)
            /\ \A f \in Fields :
                  /\ rd(f) = bg(f) /\ bg(f) = bs(f)
                  /\ bg(f) # {} /\ bg(f) \subseteq DeclaredData(builder)
            /\ \A f, g \in Fields : f # g => bg(f) \cap bg(g) = {}
            /\ last.op \in {"get", "set"} =>
                  touched # {} /\ touched \subseteq DeclaredData(builder)

\* a Builder obtained by get_from_pointer from a struct of the older, empty
\* layout, after set_day
C10_Witness ==
    /\ builder.kind = "builder" /\ builder.data_off = 1
    /\ seg[1] = StructPointer(0, 1, 0)
    /\ last.op = "set" /\ last.field = "day"
    /\ touched = {BYTES_PER_WORD + 3}

(***************************************************************************)
(* Properties of reading a Date (SpecRead, SpecReadFair).                  *)
(***************************************************************************)
\* the root pointer is null, or a valid pointer to a struct with fewer data
\* words than the Date layout the Reader was compiled against
OlderLayout(s) ==
    LET w == WordAt(s, 0)
    IN  \/ w = ZeroWord
        \/ /\ w.kind = "struct" /\ PointerInBounds(s, 0) /\ ~SelfReferential(s, 0)
           /\ w.data < STRUCT_SIZE.data

\* C3 (compatibility): Reader::get_from_pointer on a null pointer or on a
\* pointer that advertises fewer data words than the schema never fails,
\* and get_year, get_month and get_day of that Reader return the default 0.
C3_Compatibility ==
    /\ (last.op = "get_from_pointer" /\ last.via = "reader" /\ OlderLayout(rseg)) =>
          /\ last.err = None /\ rres.kind = "reader"
          /\ \A f \in Fields : Reader_get(rseg, rres.view, f) = 0
    /\ (last.op = "get" /\ last.via = "reader" /\ OlderLayout(rseg)) => ret = 0

\* a struct of 0 data words and 1 pointer, followed by a word of date bytes
C3_Witness ==
    /\ last.op = "get" /\ last.via = "reader" /\ last.field = "year"
    /\ Len(rseg) = 2 /\ rseg[1] = StructPointer(0, 0, 1) /\ rseg[2] = DateWord(2024, 3, 15)
    /\ ret = 0 /\ touched = {}

\* the root pointer is a struct pointer whose target region is not inside
\* the segment
RootOutOfBounds(s) == WordAt(s, 0).kind = "struct" /\ ~PointerInBounds(s, 0)

\* C4 (pointer safety): Reader::get_from_pointer and
\* Builder::get_from_pointer on a struct pointer that reaches beyond the
\* segment return BoundsViolation and no view, and no word outside the
\* segment is ever loaded.
C4_PointerSafety ==
    /\ (last.op = "get_from_pointer" /\ RootOutOfBounds(rseg)) =>
          last.err = "BoundsViolation" /\ rres.kind = "none" /\ rres.view = NoView
    /\ \A w \in rreads : InSeg(rseg, w)

C4_Witness ==
    /\ last = Call("get_from_pointer", "reader", "none", "BoundsViolation")
    /\ Len(rseg) = 2 /\ rseg[1] = StructPointer(0, 2, 1)
    /\ rres.kind = "none" /\ rreads = {0}

WalkResult == [err |-> walk.err, words |-> walk.words, pointers |-> walk.pointers]

\* C9 as stated: total_size returns the sum or RecursionLimitExceeded.
C9_Original ==
    walk.pc = "done" => walk.err \in {None, "RecursionLimitExceeded"}

C9_Safe ==
    /\ Len(walk.stack) <= NESTING_LIMIT + 2
    /\ walk.pc = "done" =>
          /\ walk.err \in {None, "RecursionLimitExceeded", "BoundsViolation",
                            "MalformedPointer"}
          /\ WalkResult = total_size(rseg, walk.root)
          /\ walk.err = None => walk.stack = <<>>
          /\ walk.err = "RecursionLimitExceeded" => Top(walk.stack).view.nesting <= 0
    /\ rres.kind = "builder" =>
          total_size(rseg, Builder_total_size(rres.view))
              = total_size(rseg, Reader_total_size(Builder_as_reader(rres.view)))

\* C9 (termination of total_size), amended: on any buffer, also one whose
\* pointers form a cycle, a call of total_size returns: the summed size of
\* the struct and everything reachable from it, or RecursionLimitExceeded
\* once the pointer depth is used up, or the BoundsViolation or
\* MalformedPointer of a reachable pointer that cannot be followed; its
\* depth never exceeds the configured bound; and Builder::total_size is
\* total_size of the Builder's as_reader view.
C9_TotalSize == []C9_Safe /\ ((walk.pc = "run") ~> (walk.pc = "done"))

\* total_size ran round a cycle of pointers until the depth was used up
C9_Witness ==
    /\ walk.pc = "done" /\ walk.err = "RecursionLimitExceeded"
    /\ Len(walk.stack) >= NESTING_LIMIT
    /\ rseg[1] = StructPointer(0, 0, 1) /\ rseg[2] = StructPointer(-2, 0, 1)

(***************************************************************************)
(* Properties of copying a Date (SpecCopy).                                *)
(***************************************************************************)
\* C8 (deep copy fidelity): after set_pointer_builder copied a Date from a
\* Reader into a slot, a Reader of the slot yields the year, month and day
\* of the source Reader, and its total_size is that of the source struct
\* and what it references: 1 data word and no pointers for a struct of the
\* Date layout, whatever region the slot referenced before, none of which
\* the copy occupies.
C8_DeepCopy ==
    /\ (dres.op = "set" /\ dres.err = None) => Reader_get_from_pointer(dseg, 0).err = None
    /\ (dres.op \in {"read", "size"}) =>
          /\ dres.err = None
          /\ \A f \in Fields :
                Reader_get(dseg, dres.view, f) = Reader_get(rseg, rres.view, f)
          /\ dres.view.data_off >= dres.base
    /\ (dres.op = "size") =>
          /\ dres.size = total_size(rseg, Reader_total_size(rres.view))
          /\ dres.size.err = None
          /\ WordAt(rseg, 0) = StructPointer(0, STRUCT_SIZE.data, STRUCT_SIZE.pointers)
                => dres.size = [err |-> None, words |-> 1, pointers |-> 0]
    /\ (last.op = "get" /\ last.via = "copy") =>
          ret = Reader_get(rseg, rres.view, last.field)

\* a Date copied over a slot that referenced another Date
C8_Witness ==
    /\ dres.op = "size" /\ dres.base = 2
    /\ dres.size = [err |-> None, words |-> 1, pointers |-> 0]
    /\ last.op = "get" /\ last.via = "copy" /\ last.field = "year" /\ ret = 2024
    /\ Reader_get(dseg, dres.view, "month") = 3
    /\ Reader_get(dseg, dres.view, "day") = 15

(***************************************************************************)
(* Properties of pipelines (SpecPipe).                                     *)
(***************************************************************************)
\* C5 (pipeline monotonicity): a pipeline that has left Pending stays as it
\* is in every step: it never returns to Pending, a further resolve leaves
\* it unchanged, and the outcome its Reader reads from stays the same.
C5_Monotonic ==
    [][\A p \in pipes :
         p.state # "Pending" =>
            /\ p \in pipes'
            /\ cache'[p.handle] = cache[p.handle]
            /\ resolve_pipeline(p, cache[p.handle]) = p]_vars

\* resolve was called on a pipeline that was Resolved already
C5_Witness ==
    /\ last = Call("resolve", "pipeline", "Resolved", None)
    /\ \E p \in pipes : p.state = "Resolved" /\ p.path = <<0>>
    /\ \A p \in pipes : p.state # "Pending"

\* the year of the date of a result message, read off its words; 0 is the
\* default of a path that ends in a null or absent field
ExpectedYear(msg, path) ==
    IF path = <<0>> /\ Len(msg) = 3
    THEN CHOOSE y \in I16Vals : msg[3] = DateWord(y, 3, 15)
    ELSE 0

\* C6 (promise pipelining): a pipeline for field `date` is derived from a
\* pipeline whose call is in flight without error and stays Pending until
\* the outcome is there; once the call resolved with a root whose date has
\* year y, a date::Pipeline made from it stands for a Date Reader whose
\* get_year returns y.
C6_Pipelining ==
    /\ \A p \in pipes :
          /\ ~cache[p.handle].set => p.state = "Pending" /\ p.err = None
          /\ p.state = "Pending" =>
                /\ get_pointer_field_pipeline(p, 0).pipe.state = "Pending"
                /\ get_pointer_field_pipeline(p, 0).pipe.err = None
    /\ \A d \in dates : \A y \in I16Vals :
          (d.of.path = <<0>> /\ cache[d.of.handle] = Outcome(TRUE, ResultMsg(y))) =>
              /\ DateState(d.pipe).state = "Resolved"
              /\ Reader_get(cache[d.of.handle].msg, DateState(d.pipe).view, "year") = y
    /\ (last.op = "get" /\ last.via = "pipeline") =>
          \E d \in dates :
              /\ cache[d.of.handle].set /\ cache[d.of.handle].ok
              /\ ret = ExpectedYear(cache[d.of.handle].msg, d.of.path)

\* the date pipeline was made while the call was in flight, and reads 1999
C6_Witness ==
    /\ last.op = "get" /\ last.via = "pipeline" /\ ret = 1999
    /\ \E d \in dates :
          /\ d.early /\ d.of.path = <<0>>
          /\ cache[d.of.handle] = Outcome(TRUE, ResultMsg(1999))
          /\ DateState(d.pipe).state = "Resolved"
    /\ dates # {} /\ \A d \in dates : d.of.path = <<0>> /\ d.early

\* C7 (resolve once): for every call handle the transport's resolve has been
\* invoked exactly once, however many pipelines were derived and resolved,
\* and every pipeline of the handle that left Pending holds what the one
\* cached outcome gives at its path: the same root, or the same failure.
C7_ResolveOnce ==
    /\ \A h \in 1..Len(calls) :
          /\ nresolve[h] = 1
          /\ cache[h].set <=> calls[h] = "done"
    /\ \A p \in pipes :
          p.state # "Pending" =>
             /\ cache[p.handle].set
             /\ p = resolve_pipeline(PendingPipeline(p.handle, p.path), cache[p.handle])
             /\ ~cache[p.handle].ok => p.state = "Failed" /\ p.err = "TransportError"
    /\ \A p, q \in pipes :
          (p.handle = q.handle /\ p.path = q.path /\ p.state # "Pending"
             /\ q.state # "Pending") => p = q

\* a pipeline derived after the outcome was cached, resolved on a later call
C7_Witness ==
    /\ last = Call("resolve", "pipeline", "Pending", None)
    /\ \E p, q \in pipes :
          /\ p.handle = q.handle /\ p.path = <<>> /\ q.path = <<0>>
          /\ p.state = "Resolved" /\ q.state = "Resolved"
          /\ nresolve[p.handle] = 1
    /\ \A p \in pipes : p.state # "Pending"

====
